---- MODULE Spec2Model ----
(***************************************************************************)
(* A model of ostrich_swmm/inject.py: the injection of LID parameters into *)
(* a SWMM input template.  The template is the nested mapping the reader   *)
(* produces (section name -> lines -> values); the loop body of            *)
(* inject_parameters_into_input is cut into the steps between which the    *)
(* template or a local variable changes.  Quantities are exact rationals   *)
(* <<numerator, denominator>>.                                             *)
(***************************************************************************)
EXTENDS Integers, Sequences, FiniteSets, TLC

\* ------------------------------------------------------------------ bounds
MaxLids == 2        \* LIDs taken from parameter documents, over all runs
MaxRuns == 2        \* calls of inject_parameters_into_input on one template
MaxNumber == 2      \* largest unit count ("number") of a LID

\* --------------------------------------------------------- unit constants
SqFtPerAcre == 43560
SqMPerHectare == 10000
PercentPerOne == 100

\* ------------------------------------------------- field positions (1-based)
sc_name_index == 1
sc_area_index == 2
sc_imperv_index == 3
lid_type_name_index == 1
lid_type_type_index == 2
polygon_sc_index == 1
polygon_x_index == 2
polygon_y_index == 3

None == "None"

\* ------------------------------------------------------ exact quantities
Abs(n) == IF n < 0 THEN -n ELSE n

RECURSIVE GCD(_, _)
GCD(a, b) == IF b = 0 THEN a ELSE GCD(b, a % b)

Rat(n, d) ==
    LET s == IF d < 0 THEN -1 ELSE 1
        g == GCD(Abs(n), Abs(d))
    IN  <<(s * n) \div g, (s * d) \div g>>

RSub(a, b) == Rat(a[1] * b[2] - b[1] * a[2], a[2] * b[2])
RMul(a, b) == Rat(a[1] * b[1], a[2] * b[2])
RDiv(a, b) == Rat(a[1] * b[2], a[2] * b[1])
RAdd(a, b) == Rat(a[1] * b[2] + b[1] * a[2], a[2] * b[2])
RNeg(a) == a[1] < 0
RLeq(a, b) == a[1] * b[2] <= b[1] * a[2]
RLess(a, b) == a[1] * b[2] < b[1] * a[2]
Zero == <<0, 1>>

\* lid_total_area.to(sc_area_unit): ft^2 -> acre, m^2 -> hectare
ToScAreaUnit(lid_total_area, unit_system) ==
    IF unit_system = "US" THEN Rat(lid_total_area, SqFtPerAcre)
    ELSE Rat(lid_total_area, SqMPerHectare)

\* x * units.registry.percent, as a pure number
FromPercent(p) == RMul(p, Rat(1, PercentPerOne))
\* q.to('percent').magnitude
ToPercent(q) == RMul(q, Rat(PercentPerOne, 1))

RSubSwapped(a, b) == Rat(b[1] * a[2] - a[1] * b[2], a[2] * b[2])

\* ------------------------------------------------------------ dictionaries
Has(d, k) == k \in DOMAIN d
Put(d, k, v) == (k :> v) @@ d
Get(d, k, default) == IF Has(d, k) THEN d[k] ELSE default

Line(values, comment) == [values |-> values, comment |-> comment]

\* --------------------------------------------------------- Geometry Index
\* the polygon of each zone: its vertices in the order of the POLYGONS lines
extract_subcatchment_polygons(swmm_input) ==
    LET lines == IF Has(swmm_input, "POLYGONS")
                 THEN swmm_input["POLYGONS"].lines ELSE <<>>
        used == SelectSeq(lines, LAMBDA l : Len(l.values) > 0)
        names == {used[k].values[polygon_sc_index] : k \in 1..Len(used)}
        Of(s) == SelectSeq(used, LAMBDA l : l.values[polygon_sc_index] = s)
    IN  [s \in names |->
            [k \in 1..Len(Of(s)) |->
                <<Of(s)[k].values[polygon_x_index],
                  Of(s)[k].values[polygon_y_index]>>]]

\* shapely Polygon.contains(Point): the point is in the interior of the
\* ring, a point of the boundary is not contained
Cross(a, b, p) ==
    (b[1] - a[1]) * (p[2] - a[2]) - (b[2] - a[2]) * (p[1] - a[1])

Between(u, v, w) == (u <= w /\ w <= v) \/ (v <= w /\ w <= u)

OnSegment(a, b, p) ==
    /\ Cross(a, b, p) = 0
    /\ Between(a[1], b[1], p[1])
    /\ Between(a[2], b[2], p[2])

\* the edge a-b crosses the horizontal ray from p towards +x
Crosses(a, b, p) ==
    /\ (a[2] > p[2]) # (b[2] > p[2])
    /\ IF b[2] > a[2]
       THEN (p[1] - a[1]) * (b[2] - a[2]) < (p[2] - a[2]) * (b[1] - a[1])
       ELSE (p[1] - a[1]) * (b[2] - a[2]) > (p[2] - a[2]) * (b[1] - a[1])

\* a containment that takes the boundary for part of the polygon
Covers(polygon, p) ==
    LET n == Len(polygon)
        Succ(k) == IF k = n THEN 1 ELSE k + 1
        edges == 1..n
    IN  \/ \E k \in edges : OnSegment(polygon[k], polygon[Succ(k)], p)
        \/ Cardinality({k \in edges :
                         Crosses(polygon[k], polygon[Succ(k)], p)}) % 2 = 1

Contains(polygon, p) ==
    LET n == Len(polygon)
        Succ(k) == IF k = n THEN 1 ELSE k + 1
        edges == 1..n
    IN  /\ \A k \in edges : ~OnSegment(polygon[k], polygon[Succ(k)], p)
        /\ Cardinality({k \in edges :
                         Crosses(polygon[k], polygon[Succ(k)], p)}) % 2 = 1

\* the zones get_subcatchment_from_map_coords can return: it returns the
\* first zone, in the iteration order of the dict, whose polygon contains
\* the point, and raises ValueError when this set is empty
ContainingSubcatchments(coordinates, subcatchments) ==
    {s \in DOMAIN subcatchments :
        Contains(subcatchments[s], <<coordinates.x, coordinates.y>>)}

\* ------------------------------------------------------------ Zone Lookup
\* the position of the first line named sc_name, 0 for None; the position
\* stands for the reference to the line's list of values the code returns
RECURSIVE FirstNamed(_, _, _)
FirstNamed(lines, sc_name, k) ==
    IF k > Len(lines) THEN 0
    ELSE IF /\ Len(lines[k].values) > 0
            /\ lines[k].values[sc_name_index] = sc_name
         THEN k
         ELSE FirstNamed(lines, sc_name, k + 1)

get_subcatchment_definition(swmm_input, sc_name) ==
    IF ~Has(swmm_input, "SUBCATCHMENTS") THEN 0
    ELSE FirstNamed(swmm_input["SUBCATCHMENTS"].lines, sc_name, 1)

\* --------------------------------------------------- Identifier Generator
\* an id formed from the count before it is incremented
LidIdBeforeCount(lid_type, count) == lid_type \o "_" \o ToString(count - 1)

\* line 177
LidId(lid_type, count) == lid_type \o "_" \o ToString(count)

FirstScName(base, id) == base \o "##" \o id

\* indexed names counted from the index after the loop's
IndexedScNameNext(base, id, index) ==
    base \o "##" \o id \o "###" \o ToString(index + 1)

IndexedScName(base, id, index) == base \o "##" \o id \o "###" \o ToString(index)

\* a generator that takes the first candidate without looking it up
ChildScNameUnchecked(swmm_input, base, id, index) == FirstScName(base, id)

\* the while loop of lines 204-214, entered with the name of the given index
RECURSIVE ChildScName(_, _, _, _)
ChildScName(swmm_input, base, id, index) ==
    LET name == IF index = 0 THEN FirstScName(base, id)
                ELSE IndexedScName(base, id, index)
    IN  IF get_subcatchment_definition(swmm_input, name) # 0
        THEN ChildScName(swmm_input, base, id, index + 1)
        ELSE name

\* ------------------------------------------------------------------ inputs
UnitSystems == {"US", "SI", "UNKNOWN"}

\* zone records: name, area (acre or hectare), impervious percentage
Zone(name, area, imperv) == Line(<<name, area, imperv>>, None)
Blank == Line(<<>>, None)

Vertex(sc, x, y) == Line(<<sc, x, y>>, None)
Rectangle(sc, x1, y1, x2, y2) ==
    <<Vertex(sc, x1, y1), Vertex(sc, x2, y1),
      Vertex(sc, x2, y2), Vertex(sc, x1, y2)>>

\* layout 1: two zones with adjacent polygons; layout 2: a blank line, a
\* zone that already bears a generated name, and overlapping polygons
Subcatchments(layout) ==
    IF layout = 1
    THEN <<Zone("S1", Rat(2, 1), Rat(60, 1)), Zone("S2", Rat(1, 2), Rat(50, 1))>>
    ELSE <<Zone("S1", Rat(2, 1), Rat(25, 1)), Blank,
           Zone("S2", Rat(1, 1), Rat(100, 1)),
           Zone("S1##Barrel_1", Rat(1, 1), Rat(0, 1))>>

Polygons(layout) ==
    IF layout = 1
    THEN Rectangle("S1", 0, 0, 2, 2) \o <<Blank>> \o Rectangle("S2", 2, 0, 4, 2)
    ELSE Rectangle("S1", 0, 0, 2, 2) \o Rectangle("S2", 0, 0, 4, 2)

LidControls ==
    <<Line(<<"Barrel", "RB">>, None), Line(<<"Barrel", "STORAGE">>, None),
      Blank, Line(<<"Swale", "VS">>, None)>>

OldUsage == Line(<<"S2", "Swale", 1, 10, 0, 0, 0, 0, "", "">>, None)

Section(lines) == [lines |-> lines, comment |-> None]

\* layout 0 has neither zones nor polygons
Template(layout, controls, usage) ==
    LET zones == IF layout = 0 THEN <<>>
                 ELSE ("SUBCATCHMENTS" :> Section(Subcatchments(layout)))
                      @@ ("POLYGONS" :> Section(Polygons(layout)))
        catalog == IF controls THEN ("LID_CONTROLS" :> Section(LidControls))
                   ELSE <<>>
        used == IF usage THEN ("LID_USAGE" :> Section(<<OldUsage>>)) ELSE <<>>
    IN  zones @@ catalog @@ used

\* the templates a run starts from, each with the unit system its options
\* give: with and without zones, with and without a catalog, with and
\* without earlier usage records
Templates ==
    ({Template(1, TRUE, FALSE)} \X UnitSystems)
        \cup {<<Template(2, TRUE, TRUE), "US">>,
              <<Template(0, TRUE, FALSE), "SI">>,
              <<Template(1, FALSE, TRUE), "SI">>}

LidTypes == {"Barrel", "Swale", "Pond"}

Locations ==
    {[subcatchment |-> "S1"], [subcatchment |-> "S2"],
     [subcatchment |-> "S9"],
     [map |-> [x |-> 1, y |-> 1]], [map |-> [x |-> 2, y |-> 1]]}

DrainTos ==
    {[node |-> "J1"], [subcatchment |-> "S2"],
     [map |-> [x |-> 1, y |-> 1]], [map |-> [x |-> 2, y |-> 1]]}

\* per-unit LID areas (ft^2 or m^2): half a zone-area unit
LidAreas(unit_system) ==
    IF unit_system = "US" THEN {SqFtPerAcre \div 2} ELSE {SqMPerHectare \div 2}

LidWith(type, location, number, area) ==
    [type |-> type, location |-> location, number |-> number, area |-> area,
     width |-> 0, initSat |-> 0, fromImp |-> 0, toPerv |-> 0]

\* a LID with a drain target: placed by name with every drain target, or
\* placed and drained by coordinate
DrainedPlacements ==
    ({[subcatchment |-> "S1"]} \X DrainTos)
        \cup {<<[map |-> [x |-> 1, y |-> 1]], [map |-> [x |-> 1, y |-> 1]]>>}

\* the LID specifications a parameter document can hold: every type at
\* every location, a rain barrel in every unit count, a swale with a drain
LidSpecs(unit_system) ==
    LET barrels == {LidWith("Barrel", l, n, a) :
                      l \in Locations, n \in 1..MaxNumber,
                      a \in LidAreas(unit_system)}
        others == {LidWith(t, l, 1, a) :
                     t \in LidTypes \ {"Barrel"}, l \in Locations,
                     a \in LidAreas(unit_system)}
        drained == {Put(LidWith("Swale", p[1], 1, a), "drainTo", p[2]) :
                      p \in DrainedPlacements, a \in LidAreas(unit_system)}
    IN  barrels \cup others \cup drained

\* ------------------------------------------------------------------- state
VARIABLES
    input_template,         \* the SWMM input being edited in place
    input_unit_system,      \* si.get_unit_system(input_template)
    template0,              \* the template as it was passed to this run
    runs,                   \* calls made so far
    taken,                  \* LIDs taken from documents so far, over all runs
    lids,                   \* the part of the document iterated so far
    lid,                    \* the LID of the current iteration (mutable dict)
    pc,                     \* position in inject_parameters_into_input
    err,                    \* the exception raised, "" for none
    sc_polygons,            \* <<>> for None, else <<the Geometry Index>>
    extract_calls,          \* calls of extract_subcatchment_polygons this run
    lid_counter,            \* Counter of LID types
    lid_ids,                \* the lid_id given in each iteration so far
    lid_id,
    lid_type_type,
    lid_base_sc,            \* reference to the host's values: its line number
    lid_sc_name,
    lid_sc,                 \* the child's list of values
    lid_base_sc_area,
    lid_sc_area,
    new_lid_base_sc_area

locals == <<lid_id, lid_type_type, lid_base_sc, lid_sc_name, lid_sc,
            lid_base_sc_area, lid_sc_area, new_lid_base_sc_area>>

vars == <<input_template, input_unit_system, template0, runs, taken, lids,
          lid, pc, err, sc_polygons, extract_calls, lid_counter, lid_ids,
          locals>>

NoLid == <<>>

\* the locals of the loop body before they are first assigned
FreshLocals ==
    /\ lid_id' = ""
    /\ lid_type_type' = ""
    /\ lid_base_sc' = 0
    /\ lid_sc_name' = ""
    /\ lid_sc' = <<>>
    /\ lid_base_sc_area' = Zero
    /\ lid_sc_area' = Zero
    /\ new_lid_base_sc_area' = Zero

Init ==
    /\ \E t \in Templates :
        /\ input_template = t[1]
        /\ input_unit_system = t[2]
    /\ template0 = input_template
    /\ runs = 1
    /\ taken = 0
    /\ lids = <<>>
    /\ lid = NoLid
    /\ pc = "for"
    /\ err = ""
    /\ sc_polygons = <<>>
    /\ extract_calls = 0
    /\ lid_counter = [t \in LidTypes |-> 0]
    /\ lid_ids = <<>>
    /\ lid_id = ""
    /\ lid_type_type = ""
    /\ lid_base_sc = 0
    /\ lid_sc_name = ""
    /\ lid_sc = <<>>
    /\ lid_base_sc_area = Zero
    /\ lid_sc_area = Zero
    /\ new_lid_base_sc_area = Zero

\* raise: the call ends, whatever was written so far stays written
Raise(exception) ==
    /\ pc' = "raised"
    /\ err' = exception

ScLines(template) == template["SUBCATCHMENTS"].lines

SetScLines(template, lines) ==
    [template EXCEPT !["SUBCATCHMENTS"].lines = lines]

\* ------------------------------------------------------------------ actions
\* line 136: the loop takes the next LID of the document
NextLid ==
    /\ pc = "for"
    /\ taken < MaxLids
    /\ \E l \in LidSpecs(input_unit_system) :
        /\ lid' = l
        /\ lids' = Append(lids, l)
    /\ taken' = taken + 1
    /\ pc' = "location"
    /\ FreshLocals
    /\ UNCHANGED <<input_template, input_unit_system, template0, runs, err,
                   sc_polygons, extract_calls, lid_counter, lid_ids>>

\* line 136: the document is exhausted, the call returns
Return ==
    /\ pc = "for"
    /\ pc' = "done"
    /\ lid' = NoLid
    /\ FreshLocals
    /\ UNCHANGED <<input_template, input_unit_system, template0, runs, taken,
                   lids, err, sc_polygons, extract_calls, lid_counter,
                   lid_ids>>

\* lines 127-135: the caller injects another document into the same template
Call ==
    /\ pc = "done"
    /\ runs < MaxRuns
    /\ taken < MaxLids
    /\ runs' = runs + 1
    /\ template0' = input_template
    /\ lids' = <<>>
    /\ lid_ids' = <<>>
    /\ sc_polygons' = <<>>
    /\ extract_calls' = 0
    /\ lid_counter' = [t \in LidTypes |-> 0]
    /\ pc' = "for"
    /\ UNCHANGED <<input_template, input_unit_system, taken, lid, err, locals>>

IsNone(optional) == Len(optional) = 0

\* an index that is rebuilt at every coordinate
AlwaysNeedsPolygons(polygons) == TRUE

\* lines 139 and 148: the index is built only while sc_polygons is None
NeedsPolygons(polygons) == IsNone(polygons)

\* lines 139-144 and 148-153: resolve the placement d of the LID under key
Resolve(key, next) ==
    LET polygons == IF NeedsPolygons(sc_polygons)
                    THEN extract_subcatchment_polygons(input_template)
                    ELSE sc_polygons[1]
        found == ContainingSubcatchments(lid[key].map, polygons)
    IN  /\ sc_polygons' = <<polygons>>
        /\ extract_calls' = IF NeedsPolygons(sc_polygons) THEN extract_calls + 1
                            ELSE extract_calls
        /\ IF found = {}
           THEN /\ Raise("ValueError")
                /\ UNCHANGED lid
           ELSE /\ \E s \in found :
                    lid' = [lid EXCEPT ![key] = Put(lid[key], "subcatchment", s)]
                /\ pc' = next
                /\ UNCHANGED err

\* lines 137-144
ResolveLocation ==
    /\ pc = "location"
    /\ IF Has(lid["location"], "map")
       THEN Resolve("location", "drainTo")
       ELSE /\ pc' = "drainTo"
            /\ UNCHANGED <<lid, err, sc_polygons, extract_calls>>
    /\ UNCHANGED <<input_template, input_unit_system, template0, runs, taken,
                   lids, lid_counter, lid_ids, locals>>

\* lines 146-153
ResolveDrainTo ==
    /\ pc = "drainTo"
    /\ IF Has(lid, "drainTo") /\ Has(lid["drainTo"], "map")
       THEN Resolve("drainTo", "type")
       ELSE /\ pc' = "type"
            /\ UNCHANGED <<lid, err, sc_polygons, extract_calls>>
    /\ UNCHANGED <<input_template, input_unit_system, template0, runs, taken,
                   lids, lid_counter, lid_ids, locals>>

\* lines 163-169
\* a lookup that takes every record of the section for a definition
LidTypeDefinitionAny(template, lid_type) ==
    SelectSeq(template["LID_CONTROLS"].lines, LAMBDA l : Len(l.values) > 0)

LidTypeDefinition(template, lid_type) ==
    SelectSeq(template["LID_CONTROLS"].lines,
              LAMBDA l : /\ Len(l.values) > 0
                         /\ l.values[lid_type_name_index] = lid_type)

\* a test that takes every type for a rain barrel
EveryTypeIsRainBarrel(type) == TRUE

\* line 184
IsRainBarrel(type) == type = "RB"

\* lines 155-184 and 283-290: the type of the LID, its count and its id
LookupType ==
    /\ pc = "type"
    /\ IF ~Has(input_template, "LID_CONTROLS")
       THEN /\ Raise("ConfigException")
            /\ UNCHANGED <<lid_counter, lid_ids, lid_id, lid_type_type>>
       ELSE LET lid_type_definition ==
                    LidTypeDefinition(input_template, lid["type"])
            IN  IF lid_type_definition = <<>>
                THEN /\ Raise("ConfigException")
                     /\ UNCHANGED <<lid_counter, lid_ids, lid_id,
                                    lid_type_type>>
                ELSE LET count == lid_counter[lid["type"]] + 1
                         type == lid_type_definition[1].values[lid_type_type_index]
                     IN  /\ lid_counter' =
                                [lid_counter EXCEPT ![lid["type"]] = count]
                         /\ lid_id' = LidId(lid["type"], count)
                         /\ lid_ids' = Append(lid_ids, LidId(lid["type"], count))
                         /\ lid_type_type' = type
                         /\ pc' = IF IsRainBarrel(type) THEN "area" ELSE "usage"
                         /\ UNCHANGED err
    /\ UNCHANGED <<input_template, input_unit_system, template0, runs, taken,
                   lids, lid, sc_polygons, extract_calls, lid_base_sc,
                   lid_sc_name, lid_sc, lid_base_sc_area, lid_sc_area,
                   new_lid_base_sc_area>>

\* the area of one unit taken for the area of the LID
LidTotalAreaOneUnit(l) == l["area"]

\* line 233, in ft^2 or m^2
LidTotalArea(l) == l["number"] * l["area"]

\* the difference taken the wrong way round
NewLidBaseScAreaSwapped(base_area, sc_area) == RSubSwapped(base_area, sc_area)

\* line 239
NewLidBaseScArea(base_area, sc_area) == RSub(base_area, sc_area)

\* an area test that never fails
AreaNeverBelowZero(area) == FALSE

\* line 243
AreaBelowZero(area) == RNeg(area)

\* a percentage taken over the host's area before the split
NewLidBaseScImpervOldArea(imperv, base_area, sc_area, new_area) ==
    ToPercent(RDiv(RSub(RMul(FromPercent(imperv), base_area), sc_area),
                   base_area))

\* lines 252-265: the percentage written into the host's record
NewLidBaseScImperv(imperv, base_area, sc_area, new_area) ==
    LET lid_base_sc_imperv == FromPercent(imperv)
        lid_base_sc_imperv_area == RMul(lid_base_sc_imperv, base_area)
        new_lid_base_sc_imperv_area == RSub(lid_base_sc_imperv_area, sc_area)
    IN  ToPercent(RDiv(new_lid_base_sc_imperv_area, new_area))

\* a percentage test that never fails
ImpervNeverBelowZero(imperv) == FALSE

\* line 266
ImpervBelowZero(imperv) == RNeg(imperv)

\* a lookup that falls back on the first record of the section
LidBaseScOrFirst(template, lid_base_sc_name) ==
    LET found == get_subcatchment_definition(template, lid_base_sc_name)
    IN  IF found = 0 /\ Has(template, "SUBCATCHMENTS")
                     /\ Len(template["SUBCATCHMENTS"].lines) > 0
                     /\ Len(template["SUBCATCHMENTS"].lines[1].values) > 0
        THEN 1
        ELSE found

\* lines 187-190: the record of the zone that hosts the barrel, 0 for none
LidBaseSc(template, lid_base_sc_name) ==
    get_subcatchment_definition(template, lid_base_sc_name)

\* a child record that keeps the area copied from its host
LidScHostArea(copy, sc_area) == copy

\* line 241: the child's record takes the area of the LID
LidScWithArea(copy, sc_area) == [copy EXCEPT ![sc_area_index] = sc_area]

SetValue(template, line, index, value) ==
    [template EXCEPT !["SUBCATCHMENTS"].lines[line].values[index] = value]

\* lines 185-249: the host zone, the child's name, the two areas; the new
\* area is written into the host's record before it is tested
SplitArea ==
    /\ pc = "area"
    /\ LET lid_base_sc_name == lid["location"]["subcatchment"]
           base == LidBaseSc(input_template, lid_base_sc_name)
       IN  IF base = 0
           THEN /\ Raise("ConfigException")
                /\ UNCHANGED <<input_template, lid_base_sc, lid_sc_name,
                               lid_sc, lid_base_sc_area, lid_sc_area,
                               new_lid_base_sc_area>>
           ELSE LET values == ScLines(input_template)[base].values
                    name == ChildScName(input_template, lid_base_sc_name,
                                        lid_id, 0)
                    copy == [values EXCEPT ![sc_name_index] = name]
                    total == ToScAreaUnit(LidTotalArea(lid), input_unit_system)
                    new_area == NewLidBaseScArea(values[sc_area_index], total)
                IN  /\ lid_base_sc' = base
                    /\ lid_sc_name' = name
                    /\ IF input_unit_system \notin {"US", "SI"}
                       THEN /\ Raise("ConfigException")
                            /\ lid_sc' = copy
                            /\ UNCHANGED <<input_template, lid_base_sc_area,
                                           lid_sc_area, new_lid_base_sc_area>>
                       ELSE /\ lid_base_sc_area' = values[sc_area_index]
                            /\ lid_sc_area' = total
                            /\ new_lid_base_sc_area' = new_area
                            /\ lid_sc' = LidScWithArea(copy, total)
                            /\ input_template' =
                                   SetValue(input_template, base,
                                            sc_area_index, new_area)
                            /\ IF AreaBelowZero(new_area)
                               THEN Raise("ConfigException")
                               ELSE pc' = "imperv" /\ UNCHANGED err
    /\ UNCHANGED <<input_unit_system, template0, runs, taken, lids, lid,
                   sc_polygons, extract_calls, lid_counter, lid_ids, lid_id,
                   lid_type_type>>

\* lines 251-272: the host's impervious percentage is recomputed from its
\* impervious area and written into its record before it is tested
SplitImperv ==
    /\ pc = "imperv"
    /\ LET values == ScLines(input_template)[lid_base_sc].values
       IN  IF new_lid_base_sc_area = Zero
           THEN /\ Raise("ZeroDivisionError")
                /\ UNCHANGED <<input_template, lid_sc>>
           ELSE LET percent ==
                        NewLidBaseScImperv(values[sc_imperv_index],
                                           lid_base_sc_area, lid_sc_area,
                                           new_lid_base_sc_area)
                IN  /\ lid_sc' = [lid_sc EXCEPT ![sc_imperv_index] = Zero]
                    /\ input_template' =
                           SetValue(input_template, lid_base_sc,
                                    sc_imperv_index, percent)
                    /\ IF ImpervBelowZero(percent)
                       THEN Raise("ConfigException")
                       ELSE pc' = "append" /\ UNCHANGED err
    /\ UNCHANGED <<input_unit_system, template0, runs, taken, lids, lid,
                   sc_polygons, extract_calls, lid_counter, lid_ids, lid_id,
                   lid_type_type, lid_base_sc, lid_sc_name, lid_base_sc_area,
                   lid_sc_area, new_lid_base_sc_area>>

\* a LID that stays in its host
LidLocationKept(location, name) == location

\* line 282: the LID is moved into the child zone
LidLocation(location, name) == Put(location, "subcatchment", name)

ChildComment(lid_num_units) ==
    ToString(lid_num_units) \o " LID units. (Added by OSTRICH-SWMM.)"

\* lines 274-282: the child zone is appended and the LID moved into it
AppendChild ==
    /\ pc = "append"
    /\ input_template' =
           SetScLines(input_template,
                      Append(ScLines(input_template),
                             Line(lid_sc, ChildComment(lid["number"]))))
    /\ lid' = [lid EXCEPT !["location"] =
                   LidLocation(lid["location"], lid_sc_name)]
    /\ pc' = "usage"
    /\ UNCHANGED <<input_unit_system, template0, runs, taken, lids, err,
                   sc_polygons, extract_calls, lid_counter, lid_ids, locals>>

\* lines 293-299
LidDrainTo(l) ==
    IF ~Has(l, "drainTo") THEN ""
    ELSE IF Has(l["drainTo"], "subcatchment") THEN l["drainTo"]["subcatchment"]
    ELSE IF Has(l["drainTo"], "node") THEN l["drainTo"]["node"]
    ELSE ""

\* lines 300-311
LidValues(l) ==
    <<l["location"]["subcatchment"], l["type"], l["number"], l["area"],
      l["width"], l["initSat"], l["fromImp"], l["toPerv"],
      Get(l, "rptFile", ""), LidDrainTo(l)>>

\* a section made anew for every record
WithFreshUsage(template) == Put(template, "LID_USAGE", Section(<<>>))

\* lines 313-317: the section is made when the first record needs it
WithUsage(template) ==
    IF Has(template, "LID_USAGE") THEN template
    ELSE Put(template, "LID_USAGE", Section(<<>>))

\* lines 292-322: the usage record is appended, the section made if absent
AddUsage ==
    /\ pc = "usage"
    /\ input_template' =
           [WithUsage(input_template) EXCEPT !["LID_USAGE"].lines =
                Append(@, Line(LidValues(lid), None))]
    /\ pc' = "for"
    /\ UNCHANGED <<input_unit_system, template0, runs, taken, lids, lid, err,
                   sc_polygons, extract_calls, lid_counter, lid_ids, locals>>

Next ==
    \/ NextLid
    \/ Return
    \/ Call
    \/ ResolveLocation
    \/ ResolveDrainTo
    \/ LookupType
    \/ SplitArea
    \/ SplitImperv
    \/ AppendChild
    \/ AddUsage

Spec == Init /\ [][Next]_vars

\* ------------------------------------------------------------- observation
IsRecord(line) == Len(line.values) > 0

\* the zone records of a template, blank lines left out
Zones(template) ==
    IF Has(template, "SUBCATCHMENTS")
    THEN SelectSeq(ScLines(template), IsRecord) ELSE <<>>

ZoneNames(template) ==
    LET zones == Zones(template)
    IN  {zones[k].values[sc_name_index] : k \in 1..Len(zones)}

Usage(template) ==
    IF Has(template, "LID_USAGE") THEN template["LID_USAGE"].lines ELSE <<>>

AreaOf(line) == line.values[sc_area_index]
ImpervOf(line) == line.values[sc_imperv_index]

NonNegative(template) ==
    LET zones == Zones(template)
    IN  \A k \in 1..Len(zones) :
            /\ AreaOf(zones[k])[1] >= 0
            /\ ImpervOf(zones[k])[1] >= 0

WithinRange(template) ==
    LET zones == Zones(template)
    IN  \A k \in 1..Len(zones) :
            /\ AreaOf(zones[k])[1] >= 0
            /\ ImpervOf(zones[k])[1] >= 0
            /\ ImpervOf(zones[k])[1] <= 100 * ImpervOf(zones[k])[2]

\* zone records appended since the run began
ChildrenThisRun == Len(Zones(input_template)) - Len(Zones(template0))

\* ------------------------------------------------------------------- claims
\* C1: the zone names of the template are pairwise distinct in every state
\* of every run, so each child zone was appended under a name no zone bore.
C1_ZoneNamesDistinct ==
    LET zones == Zones(input_template)
    IN  \A i, j \in 1..Len(zones) :
            i # j => zones[i].values[sc_name_index]
                         # zones[j].values[sc_name_index]

\* a child was appended whose first candidate name was already taken
C1_Witness ==
    /\ "S1##Barrel_1" \in ZoneNames(input_template)
    /\ "S1##Barrel_1###1" \in ZoneNames(input_template)

\* C2: a run that returns without error, begun on a template whose zones
\* have area >= 0 and impervious percentage in 0..100, leaves every zone,
\* host or child, with area >= 0 and impervious percentage in 0..100.
C2_ReturnedZonesWithinRange ==
    (pc = "done" /\ WithinRange(template0)) => WithinRange(input_template)

\* a run that split a host has returned
C2_Witness ==
    /\ pc = "done"
    /\ ChildrenThisRun > 0
    /\ WithinRange(template0)

\* C3 as claimed: in every state of a run, raised or not, every zone record
\* holds an area >= 0 and an impervious percentage >= 0.
C3_ZonesNeverNegative == NonNegative(input_template)

\* C3 as amended: while no error has been raised, every zone record holds an
\* area >= 0 and an impervious percentage >= 0.
C3_ZonesNonNegativeUntilRaise ==
    err = "" => NonNegative(input_template)

\* the host's reduced area is written, its percentage is not yet recomputed
C3_Witness ==
    /\ pc = "imperv"
    /\ err = ""
    /\ RLess(AreaOf(ScLines(input_template)[lid_base_sc]), lid_base_sc_area)

\* the record AddUsage has just appended names a zone of the template
LastUsage(template) == Usage(template)[Len(Usage(template))]

\* C4 as claimed: every record appended to LID_USAGE names, in its first
\* field, a zone present in SUBCATCHMENTS when the record is appended.
C4_UsageNamesExistingZone ==
    [][Len(Usage(input_template')) > Len(Usage(input_template))
          => LastUsage(input_template').values[1] \in ZoneNames(input_template)
      ]_vars

\* square feet per acre or square metres per hectare
LidUnitsPerScUnit == IF input_unit_system = "US" THEN 43560 ELSE 10000

Host(template) == ScLines(template)[lid_base_sc]
LastZone(template) == ScLines(template)[Len(ScLines(template))]

\* C5: when a split succeeds, the host's impervious area before it (old
\* fraction x old area) is its impervious area after it (new fraction x new
\* area) plus the total LID area, in the zone-area unit.
C5_ImperviousAreaConserved ==
    [][(pc = "imperv" /\ pc' = "append")
          => RMul(FromPercent(ImpervOf(Host(input_template))),
                  lid_base_sc_area)
             = RAdd(RMul(FromPercent(ImpervOf(Host(input_template'))),
                         AreaOf(Host(input_template'))),
                    Rat(lid["number"] * lid["area"], LidUnitsPerScUnit))
      ]_vars

\* a split has succeeded and left the host some impervious land
C5_Witness ==
    /\ pc = "append"
    /\ ImpervOf(Host(input_template))[1] > 0
    /\ lid_sc_area[1] > 0

\* C6: the child zone a successful split appends has area unit count x
\* per-unit area in the zone-area unit and impervious fraction 0, and the
\* host's new area is its area before the split less the child's area.
C6_ChildAndHostAreas ==
    [][/\ (pc = "area" /\ pc' = "imperv")
            => lid_base_sc_area' = AreaOf(ScLines(input_template)[lid_base_sc'])
       /\ (pc = "append" /\ pc' = "usage")
            => /\ Len(ScLines(input_template')) = Len(ScLines(input_template)) + 1
               /\ AreaOf(LastZone(input_template'))[1] * LidUnitsPerScUnit
                      = lid["number"] * lid["area"]
                            * AreaOf(LastZone(input_template'))[2]
               /\ ImpervOf(LastZone(input_template'))[1] = 0
               /\ AreaOf(Host(input_template'))
                      = RSub(lid_base_sc_area, AreaOf(LastZone(input_template')))
      ]_vars

\* a child zone for two units has been appended
C6_Witness ==
    /\ pc = "usage"
    /\ lid_type_type = "RB"
    /\ lid["number"] = 2
    /\ LastZone(input_template).values[sc_name_index] = lid_sc_name

\* the LID at the head of the split is larger than the zone it names
LidExceedsHost ==
    LET base == get_subcatchment_definition(
                    input_template, lid["location"]["subcatchment"])
    IN  /\ pc = "area"
        /\ input_unit_system \in {"US", "SI"}
        /\ base # 0
        /\ lid["number"] * lid["area"] * AreaOf(ScLines(input_template)[base])[2]
               > AreaOf(ScLines(input_template)[base])[1] * LidUnitsPerScUnit

\* C7: when the total converted area of a rain-barrel LID exceeds the
\* current area of its host zone, the split raises ConfigException, no child
\* zone and no usage record is appended, and the run makes no further step.
C7_OversizedLidRaises ==
    [][/\ LidExceedsHost
            => /\ pc' = "raised"
               /\ err' = "ConfigException"
               /\ Len(ScLines(input_template')) = Len(ScLines(input_template))
               /\ Usage(input_template') = Usage(input_template)
       /\ pc # "raised"
      ]_vars

\* a split was refused for want of area
C7_Witness ==
    /\ pc = "raised"
    /\ err = "ConfigException"
    /\ lid_type_type = "RB"
    /\ new_lid_base_sc_area[1] < 0

\* C8 as claimed: when the LID's area L is at most the host's area A but
\* more than its impervious area f x A, the split raises ConfigException and
\* appends nothing, L = A included.
C8_InsufficientImperviousRaisesConfig ==
    [][(/\ pc = "imperv"
        /\ RLess(RMul(FromPercent(ImpervOf(Host(input_template))),
                      lid_base_sc_area), lid_sc_area)
        /\ RLeq(lid_sc_area, lid_base_sc_area))
          => /\ pc' = "raised"
             /\ err' = "ConfigException"
             /\ Len(ScLines(input_template')) = Len(ScLines(input_template))
             /\ Usage(input_template') = Usage(input_template)
      ]_vars

\* LIDs of the type of the i-th among the first i of the document
CountOfType(i) ==
    Cardinality({j \in 1..i : lids[j]["type"] = lids[i]["type"]})

\* C9: in each run the k-th LID of type T gets the id 'T_k', counting from
\* 1 in every run, and no two LIDs of a run get the same id.
C9_InstanceIds ==
    /\ Len(lid_ids) <= Len(lids)
    /\ \A i \in 1..Len(lid_ids) :
          lid_ids[i] = lids[i]["type"] \o "_" \o ToString(CountOfType(i))
    /\ \A i, j \in 1..Len(lid_ids) : i # j => lid_ids[i] # lid_ids[j]

\* a second run gives the first LID of a type the first run has used
C9_Witness ==
    /\ runs = 2
    /\ taken = 2
    /\ Len(lid_ids) = 1
    /\ Len(Usage(template0)) > 0
    /\ LastUsage(template0).values[2] = lids[1]["type"]

CarriesMap(l) ==
    \/ Has(l["location"], "map")
    \/ Has(l, "drainTo") /\ Has(l["drainTo"], "map")

\* C10: in a run the Geometry Index is built at most once, and only once a
\* LID whose location or drain target is a coordinate has been reached.
C10_IndexBuiltOnceWhenNeeded ==
    /\ extract_calls <= 1
    /\ (extract_calls = 0) = IsNone(sc_polygons)
    /\ extract_calls = 1 => \E i \in 1..Len(lids) : CarriesMap(lids[i])

\* one LID had both its location and its drain target resolved
C10_Witness ==
    /\ pc = "type"
    /\ extract_calls = 1
    /\ Has(lid["location"], "map")
    /\ Has(lid, "drainTo")
    /\ Has(lid["drainTo"], "map")

\* strictly inside an axis-parallel rectangle given by its corners
InsideRectangle(corners, coordinates) ==
    /\ \E k \in 1..Len(corners) : corners[k][1] < coordinates.x
    /\ \E k \in 1..Len(corners) : corners[k][1] > coordinates.x
    /\ \E k \in 1..Len(corners) : corners[k][2] < coordinates.y
    /\ \E k \in 1..Len(corners) : corners[k][2] > coordinates.y

\* the zones whose rectangle has the coordinate strictly inside
ZonesAround(coordinates) ==
    LET index == extract_subcatchment_polygons(input_template)
    IN  {s \in DOMAIN index : InsideRectangle(index[s], coordinates)}

\* C11: a coordinate strictly inside the polygon of exactly one zone is
\* resolved to that zone; a coordinate inside no polygon raises ValueError
\* and the run, which makes no further step, appends nothing.
C11_CoordinateResolution ==
    [][/\ \A key \in {"location", "drainTo"} :
            (pc = key /\ Has(lid, key) /\ Has(lid[key], "map"))
                => /\ Cardinality(ZonesAround(lid[key]["map"])) = 1
                        => /\ pc' # "raised"
                           /\ lid'[key]["subcatchment"]
                                  \in ZonesAround(lid[key]["map"])
                   /\ ZonesAround(lid[key]["map"]) = {}
                        => /\ pc' = "raised"
                           /\ err' = "ValueError"
                           /\ input_template' = input_template
       /\ pc # "raised"
      ]_vars

\* a LID placed inside one polygon was injected, the next lay on a border
C11_Witness ==
    /\ pc = "raised"
    /\ err = "ValueError"
    /\ Len(lids) = 2
    /\ Has(lids[1]["location"], "map")
    /\ Cardinality(ZonesAround(lids[1]["location"]["map"])) = 1
    /\ LastUsage(input_template).values[1]
           \in ZonesAround(lids[1]["location"]["map"])
    /\ Len(Usage(input_template)) = Len(Usage(template0)) + 1

\* the type name of the LID heads no record of LID_CONTROLS, or the section
\* is missing
TypeUndefined(template, lid_type) ==
    \/ ~Has(template, "LID_CONTROLS")
    \/ \A k \in 1..Len(template["LID_CONTROLS"].lines) :
           LET values == template["LID_CONTROLS"].lines[k].values
           IN  Len(values) > 0 => values[lid_type_name_index] # lid_type

\* C12: a LID whose type is not defined raises ConfigException before an
\* instance id is allocated and before the model is touched for it; what
\* earlier LIDs of the run appended stays.
C12_UndefinedTypeRaises ==
    [][/\ pc \in {"location", "drainTo", "type"}
            => input_template' = input_template
       /\ pc \in {"location", "drainTo"}
            => lid_counter' = lid_counter /\ lid_ids' = lid_ids
       /\ (pc = "type" /\ TypeUndefined(input_template, lid["type"]))
            => /\ pc' = "raised"
               /\ err' = "ConfigException"
               /\ lid_counter' = lid_counter
               /\ lid_ids' = lid_ids
               /\ lid_id' = lid_id
               /\ input_template' = input_template
       /\ pc # "raised"
      ]_vars

\* a LID of an undefined type after one that was injected
C12_Witness ==
    /\ pc = "raised"
    /\ err = "ConfigException"
    /\ Len(lids) = 2
    /\ lid = lids[2]
    /\ Has(input_template, "LID_CONTROLS")
    /\ TypeUndefined(input_template, lid["type"])
    /\ lid_id = ""
    /\ Len(lid_ids) = 1
    /\ Len(Usage(input_template)) = Len(Usage(template0)) + 1

\* C13: a rain barrel whose host name heads no SUBCATCHMENTS record, or
\* whose model has no such section, raises ConfigException; no child zone
\* and no usage record is made, and the zone records stay as they were.
C13_UnknownHostRaises ==
    [][/\ (/\ pc = "area"
           /\ lid["location"]["subcatchment"] \notin ZoneNames(input_template))
            => /\ pc' = "raised"
               /\ err' = "ConfigException"
               /\ input_template' = input_template
       /\ pc # "raised"
      ]_vars

\* a barrel placed in a zone the model lacks, after one that was injected
C13_Witness ==
    /\ pc = "raised"
    /\ err = "ConfigException"
    /\ lid_type_type = "RB"
    /\ lid_base_sc = 0
    /\ Has(input_template, "SUBCATCHMENTS")
    /\ lid["location"]["subcatchment"] \notin ZoneNames(input_template)
    /\ Len(lids) = 2
    /\ Len(Usage(input_template)) = Len(Usage(template0)) + 1

\* the SUBCATCHMENTS section of a template, <<>> when it has none
ScSection(template) ==
    IF Has(template, "SUBCATCHMENTS") THEN <<template["SUBCATCHMENTS"]>>
    ELSE <<>>

\* the zone a LID specification is placed in, as the document gives it or
\* as its coordinates give it
PlacedIn(l) ==
    IF Has(l["location"], "map") THEN ZonesAround(l["location"]["map"])
    ELSE {l["location"]["subcatchment"]}

\* the type code of the first record of LID_CONTROLS that carries the name
TypeCode(template, lid_type) ==
    LET lines == template["LID_CONTROLS"].lines
        first == CHOOSE k \in 1..Len(lines) :
                     /\ Len(lines[k].values) > 0
                     /\ lines[k].values[lid_type_name_index] = lid_type
                     /\ \A j \in 1..(k - 1) :
                            Len(lines[j].values) > 0
                                => lines[j].values[lid_type_name_index]
                                       # lid_type
    IN  lines[first].values[lid_type_type_index]

\* C14: a LID whose type code is not RB is no error: the zones stay as they
\* are and exactly one usage record is appended, whose zone is the location
\* the LID was placed in.
C14_OtherTypesOnlyAddUsage ==
    [][/\ (/\ pc = "type"
           /\ ~TypeUndefined(input_template, lid["type"])
           /\ TypeCode(input_template, lid["type"]) # "RB")
            => /\ pc' = "usage"
               /\ err' = ""
               /\ lid_type_type' = TypeCode(input_template, lid["type"])
               /\ input_template' = input_template
       /\ (pc = "usage" /\ lid_type_type # "RB")
            => /\ pc' = "for"
               /\ err' = ""
               /\ ScSection(input_template') = ScSection(input_template)
               /\ Len(Usage(input_template')) = Len(Usage(input_template)) + 1
               /\ SubSeq(Usage(input_template'), 1,
                         Len(Usage(input_template))) = Usage(input_template)
               /\ LastUsage(input_template').values[1]
                      \in PlacedIn(lids[Len(lids)])
               /\ LastUsage(input_template').values[2] = lid["type"]
      ]_vars

\* a swale was injected and the zones are those the run started with
C14_Witness ==
    /\ pc = "for"
    /\ lid_type_type = "VS"
    /\ lid = lids[Len(lids)]
    /\ Len(Usage(input_template)) = Len(Usage(template0)) + 1
    /\ LastUsage(input_template).values[1] \in PlacedIn(lid)
    /\ ScSection(input_template) = ScSection(template0)

\* the names of the SUBCATCHMENTS lines, in their positions
ScNamesInPlace(template) ==
    IF ~Has(template, "SUBCATCHMENTS") THEN <<>>
    ELSE [k \in 1..Len(ScLines(template)) |->
              IF IsRecord(ScLines(template)[k])
              THEN ScLines(template)[k].values[sc_name_index] ELSE ""]

\* C15: after a successful split the usage record names the child zone and
\* not the host; the child zone is in the model before the usage record is
\* appended; the host keeps its name and its position and holds the reduced
\* area and the recomputed impervious percentage.
C15_UsageNamesChild ==
    [][/\ LET before == ScNamesInPlace(input_template)
          IN  SubSeq(ScNamesInPlace(input_template'), 1, Len(before)) = before
       /\ pc = "append"
            => /\ pc' = "usage"
               /\ Usage(input_template') = Usage(input_template)
               /\ LastZone(input_template').values[sc_name_index] = lid_sc_name
               /\ lid_sc_name \notin ZoneNames(input_template)
       /\ (pc = "usage" /\ lid_type_type = "RB")
            => LET record == LastUsage(input_template')
                   child == LastZone(input_template)
                   host == Host(input_template')
               IN  /\ pc' = "for"
                   /\ Len(Usage(input_template'))
                          = Len(Usage(input_template)) + 1
                   /\ ScSection(input_template') = ScSection(input_template)
                   /\ record.values[1] = child.values[sc_name_index]
                   /\ record.values[1] # host.values[sc_name_index]
                   /\ host.values[sc_name_index] \in PlacedIn(lids[Len(lids)])
                   /\ lid_base_sc < Len(ScLines(input_template))
                   /\ AreaOf(host) = RSub(lid_base_sc_area, AreaOf(child))
                   /\ Len(lids) = 1
                        => LET old == ScLines(template0)[lid_base_sc]
                           IN  /\ AreaOf(old) = lid_base_sc_area
                               /\ RMul(FromPercent(ImpervOf(old)), AreaOf(old))
                                    = RAdd(RMul(FromPercent(ImpervOf(host)),
                                                AreaOf(host)),
                                           AreaOf(child))
      ]_vars

\* a barrel was injected: its usage record names the child appended last,
\* and its host, the first zone, has less area than at the start
C15_Witness ==
    /\ pc = "for"
    /\ lid_type_type = "RB"
    /\ Len(lids) = 1
    /\ lid_base_sc = 1
    /\ LastUsage(input_template).values[1]
           = LastZone(input_template).values[sc_name_index]
    /\ Host(input_template).values[sc_name_index] = "S1"
    /\ RLess(AreaOf(Host(input_template)), AreaOf(ScLines(template0)[1]))
    /\ RLess(ImpervOf(Host(input_template)), ImpervOf(ScLines(template0)[1]))

\* the names the loop tries, in the order it tries them
Candidate(host, id, n) ==
    IF n = 0 THEN host \o "##" \o id
    ELSE host \o "##" \o id \o "###" \o ToString(n)

\* C16: the naming loop ends after at most as many rounds as the model has
\* zones, and the child's name is the first of host##id, host##id###1,
\* host##id###2, ... that no zone of the model bears.
C16_FirstFreeName ==
    [][(/\ pc = "area"
        /\ lid["location"]["subcatchment"] \in ZoneNames(input_template))
          => LET host == lid["location"]["subcatchment"]
                 names == ZoneNames(input_template)
             IN  \E n \in 0..Len(Zones(input_template)) :
                     /\ lid_sc_name' = Candidate(host, lid_id, n)
                     /\ Candidate(host, lid_id, n) \notin names
                     /\ \A m \in 0..(n - 1) :
                            Candidate(host, lid_id, m) \in names
      ]_vars

\* two candidates were taken already: one by the model the first run was
\* given, one by the first run
C16_Witness ==
    /\ pc \in {"imperv", "raised"}
    /\ lid_sc_name = "S1##Barrel_1###2"
    /\ {"S1##Barrel_1", "S1##Barrel_1###1"} \subseteq ZoneNames(input_template)

\* the usage record is the one made from the LID specification
RecordOf(record, l) ==
    /\ Len(record.values) = 10
    /\ record.values[2] = l["type"]
    /\ record.values[3] = l["number"]
    /\ record.values[4] = l["area"]
    /\ record.values[5] = l["width"]
    /\ record.values[9] = Get(l, "rptFile", "")
    /\ record.comment = None
    /\ \/ record.values[1] \in PlacedIn(l)
       \/ \E host \in PlacedIn(l), n \in 0..Len(Zones(input_template)) :
              \E k \in 1..MaxLids :
                  record.values[1]
                      = Candidate(host, l["type"] \o "_" \o ToString(k), n)

\* C17: a run that returns has appended one usage record for each LID
\* specification, in document order, after the records the model held,
\* which are kept as they were; a LID_USAGE section the model lacked exists
\* only once a record has been appended to it.
C17_OneUsagePerLid ==
    LET old == Usage(template0)
        new == Usage(input_template)
    IN  /\ Len(old) <= Len(new)
        /\ SubSeq(new, 1, Len(old)) = old
        /\ Has(template0, "LID_USAGE") => Has(input_template, "LID_USAGE")
        /\ Has(template0, "LID_USAGE")
             => input_template["LID_USAGE"].comment
                    = template0["LID_USAGE"].comment
        /\ (Has(input_template, "LID_USAGE") /\ ~Has(template0, "LID_USAGE"))
             => Len(new) > 0
        /\ pc = "done"
             => /\ Len(new) = Len(old) + Len(lids)
                /\ \A i \in 1..Len(lids) : RecordOf(new[Len(old) + i], lids[i])

\* a run of a swale and a barrel has returned a model that held a record
C17_Witness ==
    /\ pc = "done"
    /\ Len(lids) = 2
    /\ lids[1]["type"] = "Swale"
    /\ lids[2]["type"] = "Barrel"
    /\ Len(Usage(template0)) > 0
    /\ Usage(input_template)[Len(Usage(template0)) + 1].values[2] = "Swale"
    /\ Usage(input_template)[Len(Usage(template0)) + 2].values[2] = "Barrel"

\* the sum of the areas of the first n zone records
RECURSIVE SumOfAreas(_, _)
SumOfAreas(zones, n) ==
    IF n = 0 THEN Zero ELSE RAdd(SumOfAreas(zones, n - 1), AreaOf(zones[n]))

TotalArea(template) == SumOfAreas(Zones(template), Len(Zones(template)))

\* C18: whenever no split is under way and none has failed, the areas of
\* all zones of the model add up to what they added up to before the run,
\* however many splits the run has made and whichever hosts they shared.
C18_TotalAreaConserved ==
    pc \notin {"imperv", "append", "raised"}
        => TotalArea(input_template) = TotalArea(template0)

\* a run has split the same host twice
C18_Witness ==
    /\ pc = "done"
    /\ Len(lids) = 2
    /\ {"S1##Barrel_1", "S1##Barrel_2"} \subseteq ZoneNames(input_template)
    /\ {"S1##Barrel_1", "S1##Barrel_2"} \cap ZoneNames(template0) = {}
    /\ Len(Zones(input_template)) = Len(Zones(template0)) + 2

====
